---- MODULE Spec2Model ----
\* A model of loader.py: the per-file pipeline query_target -> upload_file ->
\* get_status, the durable files it keeps next to an input file (<file>.target,
\* <file>.status), the failed-to-upload directory, and repeated invocations of
\* the process, including interruptions of a running invocation.
EXTENDS Integers, Sequences, FiniteSets, TLC

\* ------------------------------------------------------------------ bounds
MaxTicks == 3       \* how many times the wall clock is advanced
MaxRuns == 3        \* how many pipeline runs are started for one file
MaxPasses == 2      \* how many passes are made over one directory

\* ------------------------------------------------------- program constants
TTL == 1200         \* the freshness window of query_target, in seconds

\* ------------------------------------------------------------- file names
\* A file name is a sequence of name parts; ".target" and ".status" are the
\* parts "T" and "S" appended to it, so that glob.glob(fname + "*") is the set
\* of existing names that have fname as a prefix.
Files == {<<"a">>}
Target(f) == Append(f, "T")
Status(f) == Append(f, "S")
Paths == Files \cup {Target(f) : f \in Files} \cup {Status(f) : f \in Files}

\* The names that belong to the input file f.
Own(f) == {f, Target(f), Status(f)}

IsPrefix(s, t) == Len(s) <= Len(t) /\ SubSeq(t, 1, Len(s)) = s

\* ------------------------------------------------------------ file contents
\* kind: "none" (no such file), "data" (an input file), "trunc" (a record file
\* opened with "w" and not yet written), "json" (a record document), "log" (a
\* status log).  post/poll say whether the document has the keys "post-target"
\* and "poll-result".
Content(k, po, pl, up, at, es) ==
    [kind |-> k, post |-> po, poll |-> pl, uploaded |-> up,
     acquire_time |-> at, entries |-> es]
Absent == Content("none", FALSE, FALSE, FALSE, 0, <<>>)
Data == Content("data", FALSE, FALSE, FALSE, 0, <<>>)
Truncated == Content("trunc", FALSE, FALSE, FALSE, 0, <<>>)
Log(es) == Content("log", FALSE, FALSE, FALSE, 0, es)
Directory == Content("dir", FALSE, FALSE, FALSE, 0, <<>>)

\* ------------------------------------------------------- remote responses
\* Status 0 stands for a request that raises instead of returning a response.
TransportFailure == 0
NoResponse == -1
AcqStatuses == {TransportFailure, 200, 201, 404}
UplStatuses == {TransportFailure, 199, 200, 299, 300, 500}
\* Bodies of the target-assignment response: a JSON object with both URIs, one
\* without "post-target", one that already carries "uploaded": true, one that
\* carries "uploaded": true and no URI at all, and a body that is not JSON.
AcqBodies == {"full", "nopost", "preuploaded", "uploadedonly", "notjson"}
\* Bodies of the status response: a JSON object, a JSON value that is not an
\* object, and a fetch or decode failure.
StatBodies == {"object", "nonobject", "fail"}

VARIABLES
    clock,      \* time.time()
    ticks,      \* how often the clock was advanced
    dir,        \* the input directory: name -> content
    junk,       \* the failed-to-upload directory: name -> content
    run,        \* per input file: the state of its pipeline run
    runs,       \* per input file: runs started so far
    sent,       \* per input file: requests sent over all runs
    accepted,   \* per input file: some upload request was answered 2xx
    sched       \* the state of loader, the batch scheduler

vars == <<clock, ticks, dir, junk, run, runs, sent, accepted, sched>>

\* The local state of one pipeline run.  now, urls and buffered are the
\* program's locals (buffered: urls was written to the open record file and the
\* file is not closed yet); the rest records what the run has done so far, and
\* what the file's own names held in both directories when the run started.
IdleRun ==
    [pc |-> "idle", now |-> 0, urls |-> Absent, buffered |-> FALSE,
     acq |-> 0, upl |-> 0, stat |-> 0,
     acqStatus |-> NoResponse, uplStatus |-> NoResponse, statBody |-> "none",
     errors |-> {}, startDir |-> [p \in Paths |-> Absent],
     startJunk |-> [p \in Paths |-> Absent]]

\* The state of loader: its place (pc), the batch size, the names glob.glob
\* returned that the for loop has not reached yet (todo), the coroutines
\* appended to batch, those of them that asyncio.wait has not started yet,
\* and, for the record: the number of the pass and how many passes are made,
\* the names enumerated in this pass, those of them that were regular files
\* when they were enumerated, the number of runs started before this pass and
\* the sizes of the batches awaited so far in this pass.
SchedState(pc, n, passes) ==
    [pc |-> pc, batch_size |-> n, todo |-> {}, batch |-> <<>>,
     tostart |-> <<>>, pass |-> 0, passes |-> passes, listed |-> {},
     regular |-> {}, before |-> <<>>, rounds |-> <<>>]

\* loader is not modelled: the runs of a file are started one after another.
NoSched == SchedState("none", 0, 0)

Init ==
    /\ clock = 0
    /\ ticks = 0
    /\ dir = [p \in Paths |-> IF p \in Files THEN Data ELSE Absent]
    /\ junk = [p \in Paths |-> Absent]
    /\ run = [f \in Files |-> IdleRun]
    /\ runs = [f \in Files |-> 0]
    /\ sent = [f \in Files |-> [acq |-> 0, upl |-> 0, stat |-> 0]]
    /\ accepted = [f \in Files |-> FALSE]
    /\ sched = NoSched

\* --------------------------------------------------------------- helpers
IsFile(d, p) == d[p].kind # "none"

\* os.path.isfile
IsRegular(d, p) == d[p].kind \notin {"none", "dir"}

EmptyUrls == Absent             \* urls = {} when no record file exists

\* urls.get("acquire_time", now - 1200)
AcquireTime(urls, now) ==
    IF urls.kind = "json" THEN urls.acquire_time ELSE now - TTL

\* The condition of query_target under which the target is (re-)acquired.
NeedsAcquire_Always(urls, now) == TRUE
NeedsAcquire_Stale(urls, now) == AcquireTime(urls, now) <= now - TTL
NeedsAcquire_Early(urls, now) ==
    ~urls.uploaded /\ AcquireTime(urls, now) <= now - TTL + 1
NeedsAcquire(urls, now) ==
    ~urls.uploaded /\ AcquireTime(urls, now) <= now - TTL

\* The target-assignment response is accepted only with status 200.
AcqOK_Any(status) == status # TransportFailure
AcqOK(status) == status = 200

\* The document query_target writes: the response body plus acquire_time.
AcqDocument(body, now) ==
    Content("json", body \notin {"nopost", "uploadedonly"}, body # "uploadedonly",
            body \in {"preuploaded", "uploadedonly"}, now, <<>>)

\* upload_file uploads unless the record says uploaded.
NeedsUpload_Always(urls) == TRUE
NeedsUpload(urls) == ~urls.uploaded

\* An upload response outside 200..299 is an error.
UploadRejected_Off(status) == status < 200 \/ status >= 299
UploadRejected(status) == status < 200 \/ status > 299

\* Whether the files of f are moved to the failed-to-upload directory for
\* this outcome of the upload request: only for a response that was received.
Quarantines_Transport(status) == status = TransportFailure \/ UploadRejected(status)
Quarantines(status) == status # TransportFailure /\ UploadRejected(status)

\* glob.glob(fname + "*")
Glob(d, f) == {p \in DOMAIN d : IsPrefix(f, p) /\ IsFile(d, p)}

\* shutil.move(f2move, junk) for every name of the glob, in the order glob
\* yields them; a name that already exists in junk raises and ends the loop.
MovedSets(d, j, f) ==
    LET G == Glob(d, f)
        Clash == {p \in G : IsFile(j, p)}
    IN  IF Clash = {} THEN {G}
        ELSE {M \in SUBSET (G \ Clash) : TRUE}

\* What shutil.move leaves in the source directory.
AfterMove_Copy(d, M) == d
AfterMove(d, M) == [p \in DOMAIN d |-> IF p \in M THEN Absent ELSE d[p]]

\* status = open(fname + ".status", "a+"): the log as it is, or a new empty one.
OpenedLog(c) == IF c.kind = "none" THEN Log(<<>>) ELSE c

\* status.write(json.dumps(stat)); status.write("\n")
WriteStatus_Clobber(c, entry) == Log(<<entry>>)
WriteStatus(c, entry) == Log(Append(OpenedLog(c).entries, entry))

\* Closing the record file that upload_file holds open writes what was
\* buffered: the document, from offset 0.  The write goes to the file that was
\* opened, which is in failed-to-upload when it was moved there meanwhile.
Closed(d, f, r) ==
    IF r.buffered /\ IsFile(d, Target(f))
    THEN [d EXCEPT ![Target(f)] = r.urls] ELSE d
ClosedMoved(d, j, f, r) ==
    IF r.buffered /\ ~IsFile(d, Target(f)) /\ IsFile(j, Target(f))
    THEN [j EXCEPT ![Target(f)] = r.urls] ELSE j

\* The end of an except block: log.exception in the named function.
Failed(r, fn) == [r EXCEPT !.pc = "done", !.errors = @ \cup {fn}, !.buffered = FALSE]

\* ------------------------------------------------------------ query_target
\* loader starts query_target for a regular file of the directory.  Up to the
\* first await: read the clock and the record, then either send the
\* target-assignment request or go on to upload_file.
QueryTarget(f) ==
    /\ run[f].pc \in {"idle", "done"}
    /\ runs[f] < MaxRuns
    /\ IsFile(dir, f)
    /\ runs' = [runs EXCEPT ![f] = @ + 1]
    /\ LET rec == dir[Target(f)]
           urls == IF rec.kind = "none" THEN EmptyUrls ELSE rec
           r0 == [IdleRun EXCEPT !.now = clock, !.urls = urls,
                                 !.startDir = [p \in Own(f) |-> dir[p]],
                                 !.startJunk = [p \in Own(f) |-> junk[p]]]
       IN  IF rec.kind = "trunc"
           THEN \* json.load raises on an empty document
                /\ run' = [run EXCEPT ![f] = Failed(r0, "query_target")]
                /\ UNCHANGED sent
           ELSE IF NeedsAcquire(urls, clock)
           THEN /\ run' = [run EXCEPT ![f] = [r0 EXCEPT !.pc = "q_request", !.acq = 1]]
                /\ sent' = [sent EXCEPT ![f].acq = @ + 1]
           ELSE /\ run' = [run EXCEPT ![f] = [r0 EXCEPT !.pc = "u_start"]]
                /\ UNCHANGED sent
    /\ UNCHANGED <<clock, ticks, dir, junk, accepted>>

\* The target-assignment request returns (or raises).  A status other than 200
\* or a body that is not JSON raises; otherwise the record file is opened for
\* writing, which empties it.
AcqResponseOf(f, statuses, bodies) ==
    /\ run[f].pc = "q_request"
    /\ \E status \in statuses, body \in bodies :
         LET r == [run[f] EXCEPT !.acqStatus = status]
         IN  IF ~AcqOK(status) \/ body = "notjson"
             THEN /\ run' = [run EXCEPT ![f] = Failed(r, "query_target")]
                  /\ UNCHANGED dir
             ELSE /\ run' = [run EXCEPT ![f] =
                                [r EXCEPT !.pc = "q_write",
                                          !.urls = AcqDocument(body, r.now)]]
                  /\ dir' = [dir EXCEPT ![Target(f)] = Truncated]
    /\ UNCHANGED <<clock, ticks, junk, runs, sent, accepted>>

AcqResponse(f) == AcqResponseOf(f, AcqStatuses, AcqBodies)

\* status.write(json.dumps(resp)) and the end of the with block; then
\* upload_file is scheduled as a task.
AcqPersist(f) ==
    /\ run[f].pc = "q_write"
    /\ dir' = [dir EXCEPT ![Target(f)] = run[f].urls]
    /\ run' = [run EXCEPT ![f].pc = "u_start"]
    /\ UNCHANGED <<clock, ticks, junk, runs, sent, accepted>>

\* ------------------------------------------------------------- upload_file
\* After the branch that skips the upload of an uploaded file, upload_file
\* goes on to await get_status, which sends the status request.
AfterSkip_Return(r) == [r EXCEPT !.pc = "done"]
AfterSkip(r) == [r EXCEPT !.pc = "s_request", !.stat = 1]

\* upload_file up to its first await: no record, no upload; otherwise read
\* the record and open the file, then send the upload request, or, for a
\* record that says uploaded, go on to get_status and send the status request.
UploadStart(f) ==
    /\ run[f].pc = "u_start"
    /\ LET rec == dir[Target(f)]
           r == [run[f] EXCEPT !.urls = rec]
       IN  IF rec.kind = "none"
           THEN /\ run' = [run EXCEPT ![f].pc = "done"]
                /\ UNCHANGED sent
           ELSE IF rec.kind # "json" \/ ~rec.post \/ ~rec.poll \/ ~IsFile(dir, f)
           THEN /\ run' = [run EXCEPT ![f] = Failed(r, "upload_file")]
                /\ UNCHANGED sent
           ELSE IF NeedsUpload(rec)
           THEN /\ run' = [run EXCEPT ![f] = [r EXCEPT !.pc = "u_request", !.upl = 1]]
                /\ sent' = [sent EXCEPT ![f].upl = @ + 1]
           ELSE /\ run' = [run EXCEPT ![f] = AfterSkip(r)]
                /\ sent' = [sent EXCEPT ![f].stat = @ + AfterSkip(r).stat]
    /\ UNCHANGED <<clock, ticks, dir, junk, runs, accepted>>

\* The upload request returns (or raises).  A response outside 200..299 moves
\* every file whose name starts with fname to the failed-to-upload directory
\* and raises; a 2xx response sets uploaded in urls and writes the document to
\* the record file, which stays open.
UploadResponseOf(f, statuses) ==
    /\ run[f].pc = "u_request"
    /\ \E status \in statuses :
         LET r == [run[f] EXCEPT !.uplStatus = status]
         IN  IF Quarantines(status)
             THEN \E M \in MovedSets(dir, junk, f) :
                    /\ dir' = AfterMove(dir, M)
                    /\ junk' = [p \in DOMAIN dir |-> IF p \in M THEN dir[p] ELSE junk[p]]
                    /\ run' = [run EXCEPT ![f] = Failed(r, "upload_file")]
                    /\ UNCHANGED accepted
             ELSE IF status = TransportFailure
             THEN /\ run' = [run EXCEPT ![f] = Failed(r, "upload_file")]
                  /\ UNCHANGED <<dir, junk, accepted>>
             ELSE /\ run' = [run EXCEPT ![f] =
                                [r EXCEPT !.pc = "u_body", !.urls.uploaded = TRUE,
                                          !.buffered = TRUE]]
                  /\ accepted' = [accepted EXCEPT ![f] = TRUE]
                  /\ UNCHANGED <<dir, junk>>
    /\ UNCHANGED <<clock, ticks, runs, sent>>

UploadResponse(f) == UploadResponseOf(f, UplStatuses)

\* data = await resp.json(): a body that is not JSON raises, the with block
\* closes the record file; otherwise get_status sends the status request.
UploadBodyOf(f, oks) ==
    /\ run[f].pc = "u_body"
    /\ \E ok \in oks :
         IF ok
         THEN /\ run' = [run EXCEPT ![f].pc = "s_request", ![f].stat = 1]
              /\ sent' = [sent EXCEPT ![f].stat = @ + 1]
              /\ UNCHANGED <<dir, junk>>
         ELSE /\ dir' = Closed(dir, f, run[f])
              /\ junk' = ClosedMoved(dir, junk, f, run[f])
              /\ run' = [run EXCEPT ![f] = Failed(run[f], "upload_file")]
              /\ UNCHANGED sent
    /\ UNCHANGED <<clock, ticks, runs, accepted>>

UploadBody(f) == UploadBodyOf(f, BOOLEAN)

\* -------------------------------------------------------------- get_status
\* What get_status leaves in the directory for the answer it got.
StatusWritten_OnFail(d, f, body, entry) ==
    [d EXCEPT ![Status(f)] = WriteStatus(@, entry)]
StatusWritten(d, f, body, entry) ==
    IF body = "fail" THEN d
    ELSE IF body = "nonobject"
    THEN [d EXCEPT ![Status(f)] = OpenedLog(@)]
    ELSE [d EXCEPT ![Status(f)] = WriteStatus(@, entry)]

\* The status request returns: a JSON object is appended to the status log
\* with the time of the query; a failure is logged inside get_status, which
\* returns normally either way.
StatusResponseOf(f, bodies) ==
    /\ run[f].pc = "s_request"
    /\ \E body \in bodies :
         /\ dir' = StatusWritten(dir, f, body, [time |-> clock])
         /\ run' = [run EXCEPT ![f] =
                       [run[f] EXCEPT !.pc = "u_close", !.statBody = body,
                                      !.errors = IF body = "object" THEN @
                                                 ELSE @ \cup {"get_status"}]]
    /\ UNCHANGED <<clock, ticks, junk, runs, sent, accepted>>

StatusResponse(f) == StatusResponseOf(f, StatBodies)

\* upload_file leaves its with block after get_status has returned: the
\* record file is closed, and what was written to it reaches the file.
CloseRecord(f) ==
    /\ run[f].pc = "u_close"
    /\ dir' = Closed(dir, f, run[f])
    /\ junk' = ClosedMoved(dir, junk, f, run[f])
    /\ run' = [run EXCEPT ![f].pc = "done", ![f].buffered = FALSE]
    /\ UNCHANGED <<clock, ticks, runs, sent, accepted>>

\* ------------------------------------------------------------ environment
TickSteps == {1, TTL - 1}

Tick ==
    /\ ticks < MaxTicks
    /\ \E d \in TickSteps : clock' = clock + d
    /\ ticks' = ticks + 1
    /\ UNCHANGED <<dir, junk, run, runs, sent, accepted>>

\* The process is interrupted while runs are in flight.  What upload_file had
\* written to its open record file is lost with a kill, and reaches the file
\* when the interpreter gets to close it.
Crash ==
    /\ \E f \in DOMAIN run : run[f].pc \notin {"idle", "done"}
    /\ \E flushed \in BOOLEAN :
         LET Written(d, p) ==
               \E f \in DOMAIN run :
                   p = Target(f) /\ run[f].buffered /\ flushed /\ IsFile(d, p)
             Doc(p) == run[CHOOSE f \in DOMAIN run : p = Target(f)].urls
         IN  /\ dir' = [p \in DOMAIN dir |->
                          IF Written(dir, p) THEN Doc(p) ELSE dir[p]]
             /\ junk' = [p \in DOMAIN junk |->
                           IF ~IsFile(dir, p) /\ Written(junk, p)
                           THEN Doc(p) ELSE junk[p]]
    /\ run' = [f \in DOMAIN run |-> IF run[f].pc = "done" THEN run[f] ELSE IdleRun]
    /\ UNCHANGED <<clock, ticks, runs, sent, accepted>>

Next ==
    \/ \E f \in Files : QueryTarget(f) /\ UNCHANGED sched
    \/ \E f \in Files : AcqResponse(f) /\ UNCHANGED sched
    \/ \E f \in Files : AcqPersist(f) /\ UNCHANGED sched
    \/ \E f \in Files : UploadStart(f) /\ UNCHANGED sched
    \/ \E f \in Files : UploadBody(f) /\ UNCHANGED sched
    \/ \E f \in Files : UploadResponse(f) /\ UNCHANGED sched
    \/ \E f \in Files : StatusResponse(f) /\ UNCHANGED sched
    \/ \E f \in Files : CloseRecord(f) /\ UNCHANGED sched
    \/ Tick /\ UNCHANGED sched
    \/ Crash /\ UNCHANGED sched

Spec == Init /\ [][Next]_vars

\* ------------------------------------------------------------------ loader
\* The failed-to-upload directory, which __main__ creates in the input
\* directory before loader runs.
JunkName == <<"failed-to-upload">>

\* The record and status log names of a set of names, and the names that n
\* passes can create from a set of names.
Sidecars(S) == {Target(f) : f \in S} \cup {Status(f) : f \in S}
RECURSIVE Closure(_, _)
Closure(S, n) == IF n = 0 THEN S ELSE Closure(S \cup Sidecars(S), n - 1)

\* --batch N
BatchSizes == {1, 2}

\* The answers of the remote side while loader is modelled: the target is
\* assigned or not found, the upload accepted or rejected with a JSON body,
\* the status fetched or not.
SchedAcqStatuses == {200, 404}
SchedAcqBodies == {"full"}
SchedUplStatuses == {200, 500}
SchedUplBodies == {TRUE}
SchedStatBodies == {"object", "fail"}

\* glob.glob(join(dir_name, "*")): every entry of the directory.
Listed(d) == {p \in DOMAIN d : IsFile(d, p)}

\* if batch_size <= len(batch)
BatchFull_Late(n, batch) == n < Len(batch)
BatchFull(n, batch) == n <= Len(batch)

Range(s) == {s[i] : i \in 1..Len(s)}

\* The directory holds the files named names, and the empty failed-to-upload
\* directory; runs can be started for the names in runnable.
InitOf(names, runnable, universe, sizes, passes) ==
    /\ clock = 0
    /\ ticks = 0
    /\ dir = [p \in universe |-> IF p \in names THEN Data
                                ELSE IF p = JunkName THEN Directory ELSE Absent]
    /\ junk = [p \in universe |-> Absent]
    /\ run = [f \in runnable |-> IdleRun]
    /\ runs = [f \in runnable |-> 0]
    /\ sent = [f \in runnable |-> [acq |-> 0, upl |-> 0, stat |-> 0]]
    /\ accepted = [f \in runnable |-> FALSE]
    /\ sched \in {SchedState("init", n, passes) : n \in sizes}

\* One invocation of the program: loader evaluates glob.glob once.
StartPass ==
    /\ sched.pc \in {"init", "exit"}
    /\ sched.pass < sched.passes
    /\ sched' = [sched EXCEPT !.pc = "loop", !.pass = @ + 1,
                              !.todo = Listed(dir), !.listed = Listed(dir),
                              !.regular = {p \in Listed(dir) : IsRegular(dir, p)},
                              !.batch = <<>>, !.tostart = <<>>,
                              !.before = runs, !.rounds = <<>>]
    /\ UNCHANGED <<clock, ticks, dir, junk, run, runs, sent, accepted>>

\* One iteration of the for loop, for the next name in the order glob.glob
\* returned them, which is any order: a name that is no regular file is
\* skipped, a regular file's coroutine is appended to batch, and a full
\* batch is handed to asyncio.wait.
Iterate ==
    /\ sched.pc = "loop"
    /\ \E fname \in sched.todo :
         LET rest == sched.todo \ {fname}
             batch == Append(sched.batch, fname)
         IN  IF ~IsRegular(dir, fname)
             THEN sched' = [sched EXCEPT !.todo = rest]
             ELSE IF BatchFull(sched.batch_size, batch)
             THEN sched' = [sched EXCEPT !.todo = rest, !.batch = batch,
                                         !.tostart = batch, !.pc = "start"]
             ELSE sched' = [sched EXCEPT !.todo = rest, !.batch = batch]
    /\ UNCHANGED <<clock, ticks, dir, junk, run, runs, sent, accepted>>

\* The for loop is exhausted: a batch that is not empty is awaited, and
\* loader returns.
LoopEnd ==
    /\ sched.pc = "loop"
    /\ sched.todo = {}
    /\ sched' = IF sched.batch # <<>>
                THEN [sched EXCEPT !.tostart = sched.batch, !.pc = "start"]
                ELSE [sched EXCEPT !.pc = "exit"]
    /\ UNCHANGED <<clock, ticks, dir, junk, run, runs, sent, accepted>>

\* asyncio.wait(batch) makes a task of every coroutine of the batch; each
\* task runs to its first await before any response can arrive.
StartRun(f) ==
    /\ sched.pc = "start"
    /\ sched.tostart # <<>>
    /\ f = Head(sched.tostart)
    /\ QueryTarget(f)
    /\ sched' = [sched EXCEPT !.tostart = Tail(@),
                              !.pc = IF Tail(sched.tostart) = <<>>
                                     THEN "wait" ELSE "start"]

\* The event loop runs the tasks of the batch while loader awaits them.
Waiting == sched.pc = "wait" /\ UNCHANGED sched

\* asyncio.wait returns when every task of the batch is done; batch = [].
BatchDone ==
    /\ sched.pc = "wait"
    /\ \A f \in Range(sched.batch) : run[f].pc = "done"
    /\ sched' = [sched EXCEPT !.pc = "loop", !.batch = <<>>,
                              !.rounds = Append(@, Len(sched.batch))]
    /\ UNCHANGED <<clock, ticks, dir, junk, run, runs, sent, accepted>>

NextSched ==
    \/ StartPass
    \/ Iterate
    \/ LoopEnd
    \/ \E f \in DOMAIN run : StartRun(f)
    \/ \E f \in DOMAIN run :
           AcqResponseOf(f, SchedAcqStatuses, SchedAcqBodies) /\ Waiting
    \/ \E f \in DOMAIN run : AcqPersist(f) /\ Waiting
    \/ \E f \in DOMAIN run : UploadStart(f) /\ Waiting
    \/ \E f \in DOMAIN run : UploadResponseOf(f, SchedUplStatuses) /\ Waiting
    \/ \E f \in DOMAIN run : UploadBodyOf(f, SchedUplBodies) /\ Waiting
    \/ \E f \in DOMAIN run : StatusResponseOf(f, SchedStatBodies) /\ Waiting
    \/ \E f \in DOMAIN run : CloseRecord(f) /\ Waiting
    \/ BatchDone

\* One pass over a directory of five files, one of whose names is the
\* beginning of another's.
SchedNames == {<<"a">>, <<"a", "b">>, <<"c">>, <<"d">>, <<"e">>}
InitSched ==
    InitOf(SchedNames, SchedNames, Closure(SchedNames, 1) \cup {JunkName},
           BatchSizes, 1)
SpecSched == InitSched /\ [][NextSched]_vars

\* Repeated passes over a directory that starts with one input file: the
\* files a pass leaves in the directory are candidates of the next pass.
DirNames == {<<"a">>}
DirBatchSizes == {1}
InitDir ==
    InitOf(DirNames, Closure(DirNames, MaxPasses - 1),
           Closure(DirNames, MaxPasses) \cup {JunkName}, DirBatchSizes, MaxPasses)

\* The answers of the remote side over repeated passes: the target is
\* assigned, the upload accepted or rejected, the status fetched.
DirAcqStatuses == {200}
DirUplStatuses == {200, 500}
DirStatBodies == {"object"}

NextDir ==
    \/ StartPass
    \/ Iterate
    \/ LoopEnd
    \/ \E f \in DOMAIN run : StartRun(f)
    \/ \E f \in DOMAIN run :
           AcqResponseOf(f, DirAcqStatuses, SchedAcqBodies) /\ Waiting
    \/ \E f \in DOMAIN run : AcqPersist(f) /\ Waiting
    \/ \E f \in DOMAIN run : UploadStart(f) /\ Waiting
    \/ \E f \in DOMAIN run : UploadResponseOf(f, DirUplStatuses) /\ Waiting
    \/ \E f \in DOMAIN run : UploadBodyOf(f, SchedUplBodies) /\ Waiting
    \/ \E f \in DOMAIN run : StatusResponseOf(f, DirStatBodies) /\ Waiting
    \/ \E f \in DOMAIN run : CloseRecord(f) /\ Waiting
    \/ BatchDone

SpecDir == InitDir /\ [][NextDir]_vars

\* ------------------------------------------------------------------ claims
\* What a run found when it started.
StartRecord(f) == run[f].startDir[Target(f)]
StartLog(f) == OpenedLog(run[f].startDir[Status(f)]).entries
NowLog(f) == OpenedLog(dir[Status(f)]).entries
Started(f) == run[f].pc # "idle"
StartedUploaded(f) ==
    Started(f) /\ StartRecord(f).kind = "json" /\ StartRecord(f).uploaded
StartedComplete(f) ==
    StartedUploaded(f) /\ StartRecord(f).post /\ StartRecord(f).poll
Fresh(f) == run[f].now - StartRecord(f).acquire_time < TTL
Is2xx(status) == 200 <= status /\ status <= 299
GotUploadResponse(f) == run[f].uplStatus \notin {NoResponse, TransportFailure}
\* new is old with at most one entry added at the end
GrewByAtMostOne(old, new) ==
    /\ Len(new) \in {Len(old), Len(old) + 1}
    /\ SubSeq(new, 1, Len(old)) = old

\* C1, as stated: a run that starts with a record that says uploaded and is
\* within the TTL sends no acquisition, upload or status request and leaves
\* the record, the status log and the file's location as they were.
C1_RerunChangesNothing ==
    \A f \in Files :
        (StartedUploaded(f) /\ Fresh(f)) =>
            /\ run[f].acq = 0 /\ run[f].upl = 0 /\ run[f].stat = 0
            /\ dir = run[f].startDir
            /\ junk = run[f].startJunk

\* C1, amended: such a run sends no acquisition and no upload request and
\* leaves the record and the file where and as they were; it does send the
\* status request again (once, when the record names both URIs), and the
\* status log is as it was or has one more entry at its end, the latter
\* exactly when the poll returned a JSON object.
C1_RerunOnlyPollsStatus ==
    \A f \in Files :
        (StartedUploaded(f) /\ Fresh(f)) =>
            /\ run[f].acq = 0 /\ run[f].upl = 0 /\ run[f].stat <= 1
            /\ dir[f] = run[f].startDir[f]
            /\ dir[Target(f)] = StartRecord(f)
            /\ junk = run[f].startJunk
            /\ GrewByAtMostOne(StartLog(f), NowLog(f))
            /\ (run[f].pc = "done" /\ StartedComplete(f)) =>
                   /\ run[f].stat = 1
                   /\ (Len(NowLog(f)) = Len(StartLog(f)) + 1) <=>
                          (run[f].statBody = "object")

C1_Witness ==
    \E f \in Files :
        /\ StartedComplete(f) /\ Fresh(f)
        /\ runs[f] = 2
        /\ run[f].pc = "done"
        /\ run[f].statBody = "object"
        /\ Len(StartLog(f)) = 1 /\ Len(NowLog(f)) = 2

\* C2: in a run that starts with a record that says uploaded, upload_file
\* sends no upload request, whatever the number of the run and whether or not
\* an earlier status poll failed.
C2_UploadOnce ==
    \A f \in Files : StartedUploaded(f) => run[f].upl = 0

\* The third run of a file that was uploaded in the first one, with every
\* status poll so far having failed.
C2_Witness ==
    \E f \in Files :
        /\ StartedComplete(f)
        /\ runs[f] = 3
        /\ sent[f].upl = 1 /\ sent[f].stat = 3
        /\ run[f].pc = "done"
        /\ ~IsFile(dir, Status(f))

\* C3: once an upload request was answered 2xx, the record on disk says
\* uploaded before the status request is sent, so that no later run, after an
\* interruption at any point, sends the upload request again.
C3_UploadedDurableBeforePoll ==
    \A f \in Files :
        /\ (run[f].pc = "s_request" /\ Is2xx(run[f].uplStatus)) =>
               (dir[Target(f)].kind = "json" /\ dir[Target(f)].uploaded)
        /\ accepted[f] => sent[f].upl = 1

\* C4: a run that finds no record sends one acquisition request; one that
\* finds a record not marked uploaded sends none while now - acquire_time <
\* TTL, and then query_target leaves the record file as it found it; it sends
\* exactly one when now - acquire_time > TTL.
C4_FreshnessWindow ==
    \A f \in Files :
        LET r == run[f]
            rec == StartRecord(f)
            age == r.now - rec.acquire_time
        IN  Started(f) =>
              /\ rec.kind = "none" => r.acq = 1
              /\ (rec.kind = "json" /\ ~rec.uploaded /\ age < TTL) =>
                    /\ r.acq = 0
                    /\ r.pc \in {"u_start", "u_request"} => dir[Target(f)] = rec
              /\ (rec.kind = "json" /\ ~rec.uploaded /\ age > TTL) => r.acq = 1

\* A record acquired TTL - 1 seconds ago is reused: no request, and the
\* upload goes on with the record as it was.
C4_Witness ==
    \E f \in Files :
        /\ StartRecord(f).kind = "json" /\ ~StartRecord(f).uploaded
        /\ run[f].now - StartRecord(f).acquire_time = TTL - 1
        /\ run[f].pc = "u_request"
        /\ run[f].acq = 0
        /\ sent[f].acq = 1

\* A record acquired TTL + 1 seconds ago is acquired again.
C4_WitnessExpired ==
    \E f \in Files :
        /\ StartRecord(f).kind = "json" /\ ~StartRecord(f).uploaded
        /\ run[f].now - StartRecord(f).acquire_time = TTL + 1
        /\ run[f].pc = "u_start"
        /\ run[f].acq = 1
        /\ dir[Target(f)].acquire_time = run[f].now

\* C5: the record gets uploaded = true exactly for an upload response with a
\* status in 200..299; for any other status the file, its record and its
\* status log are gone from the directory and are in failed-to-upload, the
\* record does not say uploaded, upload_file has logged the error and no
\* status request is sent in that run.
C5_QuarantineOnRejection ==
    \A f \in Files :
        LET r == run[f] IN
        /\ (GotUploadResponse(f) /\ ~Is2xx(r.uplStatus)) =>
              /\ r.pc = "done"
              /\ \A p \in {f, Target(f), Status(f)} :
                    /\ ~IsFile(dir, p)
                    /\ IsFile(r.startDir, p) => IsFile(junk, p)
              /\ IsFile(junk, f) /\ junk[Target(f)].kind = "json"
              /\ ~junk[Target(f)].uploaded
              /\ "upload_file" \in r.errors
              /\ r.stat = 0
        /\ (GotUploadResponse(f) /\ r.pc = "done") =>
              ((dir[Target(f)].uploaded \/ junk[Target(f)].uploaded)
                  <=> Is2xx(r.uplStatus))

\* An upload answered 500, of a file that has a status log from an
\* interrupted earlier run: all three files are in failed-to-upload.
C5_Witness ==
    \E f \in Files :
        /\ run[f].uplStatus = 500
        /\ run[f].pc = "done"
        /\ IsFile(junk, f) /\ IsFile(junk, Target(f)) /\ IsFile(junk, Status(f))
        /\ ~IsFile(dir, f)

\* C6, as stated: a transport failure of the upload request moves the file
\* and its sidecar files to failed-to-upload, like a non-2xx response.
C6_TransportFailureQuarantines ==
    \A f \in Files :
        (run[f].uplStatus = TransportFailure) =>
            /\ run[f].pc = "done"
            /\ ~IsFile(dir, f) /\ IsFile(junk, f)
            /\ ~IsFile(dir, Target(f)) /\ IsFile(junk, Target(f))

\* C6, amended: a transport failure of the upload request aborts the run
\* (upload_file logs the error, no status request, uploaded not set) and moves
\* nothing: the file, its record and its status log stay where they were.
C6_TransportFailureAbortsOnly ==
    \A f \in Files :
        (run[f].uplStatus = TransportFailure) =>
            /\ run[f].pc = "done"
            /\ "upload_file" \in run[f].errors
            /\ run[f].stat = 0
            /\ IsFile(dir, f)
            /\ dir[Target(f)].kind = "json" /\ ~dir[Target(f)].uploaded
            /\ dir[Status(f)] = run[f].startDir[Status(f)]
            /\ junk = run[f].startJunk

C6_Witness ==
    \E f \in Files :
        /\ run[f].uplStatus = TransportFailure
        /\ run[f].upl = 1
        /\ run[f].pc = "done"
        /\ IsFile(dir, f) /\ IsFile(dir, Target(f))

\* C7: when the target-assignment request is answered with a status other
\* than 200 (or raises), the run sends no upload and no status request, leaves
\* the record file, a stale one included, exactly as it was, and moves nothing
\* to failed-to-upload.
C7_AcquisitionFailureNoEffects ==
    \A f \in Files :
        (run[f].acqStatus \notin {NoResponse, 200}) =>
            /\ run[f].pc = "done"
            /\ "query_target" \in run[f].errors
            /\ run[f].upl = 0 /\ run[f].stat = 0
            /\ dir = run[f].startDir
            /\ junk = run[f].startJunk

\* A 404 for a file whose stale record is still there, unchanged.
C7_Witness ==
    \E f \in Files :
        /\ run[f].acqStatus = 404
        /\ run[f].pc = "done"
        /\ StartRecord(f).kind = "json"
        /\ dir[Target(f)] = StartRecord(f)
        /\ run[f].now - StartRecord(f).acquire_time >= TTL

\* C8: when the status fetch or its decoding fails after an upload that was
\* answered 2xx in the same run, get_status logs it and returns: upload_file
\* ends without an error of its own, the record says uploaded, the file is
\* not moved and nothing is added to the status log.
C8_StatusFailureLogged ==
    \A f \in Files :
        (run[f].statBody = "fail" /\ Is2xx(run[f].uplStatus)) =>
            /\ run[f].pc \in {"u_close", "done"}
            /\ run[f].errors = {"get_status"}
            /\ IsFile(dir, f)
            /\ dir[Status(f)] = run[f].startDir[Status(f)]
            /\ junk = run[f].startJunk
            /\ run[f].pc = "done" =>
                  (dir[Target(f)].kind = "json" /\ dir[Target(f)].uploaded)

C8_Witness ==
    \E f \in Files :
        /\ run[f].statBody = "fail" /\ run[f].uplStatus = 200
        /\ run[f].pc = "done"
        /\ dir[Target(f)].uploaded
        /\ ~IsFile(dir, Status(f))

\* The entries of the status log of f, wherever the log is.
LogEntries(d, j, f) ==
    IF IsFile(d, Status(f)) THEN d[Status(f)].entries ELSE j[Status(f)].entries

\* C9: a status poll that returns a JSON object adds exactly one entry, with
\* the time of the poll, at the end of the file's status log, and no step
\* changes or removes an entry that is there.
C9_AppendOnlyLog ==
    [][\A f \in Files :
         LET old == LogEntries(dir, junk, f)
             new == LogEntries(dir', junk', f)
         IN  IF run[f].pc = "s_request" /\ run'[f].pc = "u_close"
                /\ run'[f].statBody = "object"
             THEN new = Append(old, [time |-> clock])
             ELSE new = old]_vars

\* Three polls at three different times: three entries, in poll order.
C9_Witness ==
    \E f \in Files :
        LET es == dir[Status(f)].entries IN
        /\ dir[Status(f)].kind = "log"
        /\ Len(es) = 3
        /\ es[1].time < es[2].time /\ es[2].time < es[3].time

\* C10, as stated: a run that finds the record already saying uploaded sends
\* no status request and adds nothing to the status log.
C10_NoPollOnResume ==
    \A f \in Files :
        StartedUploaded(f) =>
            /\ run[f].stat = 0
            /\ dir[Status(f)] = run[f].startDir[Status(f)]

\* C10, amended: a status request is sent only with uploaded true in the
\* record as upload_file holds it: after an upload answered 2xx in the same
\* run, or with the upload skipped because the record it read already said
\* uploaded.  A resumed run that finds uploaded already true skips the upload,
\* sends one status request, and a poll that returns a JSON object adds one
\* entry to the status log.
C10_PollAfterUploadOrOnResume ==
    \A f \in Files :
        /\ run[f].stat = 1 =>
              /\ run[f].urls.uploaded
              /\ Is2xx(run[f].uplStatus) \/ run[f].upl = 0
        /\ (StartedComplete(f) /\ run[f].pc = "done") =>
              /\ run[f].upl = 0
              /\ run[f].stat = 1
              /\ run[f].statBody = "object" =>
                    Len(NowLog(f)) = Len(StartLog(f)) + 1

C10_Witness ==
    \E f \in Files :
        /\ StartedComplete(f)
        /\ run[f].pc = "done"
        /\ run[f].upl = 0 /\ run[f].stat = 1
        /\ run[f].statBody = "object"
        /\ ~IsFile(run[f].startDir, Status(f))
        /\ Len(dir[Status(f)].entries) = 1

\* C15: once the record of a file says uploaded, no step sends an
\* acquisition request for the file or changes the record, whatever the age
\* of acquire_time; only the status log may grow.
C15_RecordImmutableAfterUpload ==
    [][\A f \in Files :
         (dir[Target(f)].kind = "json" /\ dir[Target(f)].uploaded) =>
             /\ dir'[Target(f)] = dir[Target(f)]
             /\ sent'[f].acq = sent[f].acq
             /\ sent'[f].upl = sent[f].upl]_vars

\* A run that ended, started with an uploaded record older than the TTL,
\* which is still the same document; the run has polled the status.
C15_Witness ==
    \E f \in Files :
        /\ StartedComplete(f)
        /\ run[f].now - StartRecord(f).acquire_time > TTL
        /\ run[f].pc = "done"
        /\ run[f].acq = 0 /\ run[f].stat = 1
        /\ dir[Target(f)] = StartRecord(f)
        /\ Len(NowLog(f)) = Len(StartLog(f)) + 1

\* C16: a record on disk that says uploaded has a post-target and a
\* poll-result, whatever JSON object the target-assignment endpoint returned.
C16_UploadedHasTargets ==
    \A f \in Files :
        \A d \in {dir, junk} :
            (d[Target(f)].kind = "json" /\ d[Target(f)].uploaded) =>
                (d[Target(f)].post /\ d[Target(f)].poll)

\* C17: when a record file that exists is written again, it holds at every
\* moment a complete document, the old one or the new one.
C17_RecordNeverPartial ==
    \A f \in Files :
        (Started(f) /\ StartRecord(f).kind = "json") =>
            dir[Target(f)].kind = "json" \/ junk[Target(f)].kind = "json"

\* What the remote answered in the run of f was a success each time, with
\* well-formed bodies, and the record the run found, if any, was not one a
\* malformed body had left.
AnsweredWell(f) ==
    LET r == run[f] IN
    /\ StartRecord(f).kind = "json" => (StartRecord(f).post /\ StartRecord(f).poll)
    /\ r.acqStatus \in {NoResponse, 200}
    /\ r.acqStatus = 200 =>
          /\ "query_target" \notin r.errors
          /\ dir[Target(f)].kind = "json" /\ dir[Target(f)].post
          /\ dir[Target(f)].poll
    /\ r.uplStatus = NoResponse \/ Is2xx(r.uplStatus)
    /\ r.uplStatus # NoResponse => "upload_file" \notin r.errors
    /\ r.statBody \in {"none", "object"}

\* C18: whatever was interrupted before, a run that the remote answers
\* successfully throughout ends with the record saying uploaded, and it does
\* not upload again a file whose upload was accepted before.
C18_ResumeCompletes ==
    \A f \in Files :
        (run[f].pc = "done" /\ IsFile(run[f].startDir, f) /\ AnsweredWell(f)) =>
            /\ dir[Target(f)].kind = "json" /\ dir[Target(f)].uploaded
            /\ sent[f].upl <= 1

\* ------------------------------------------------------- claims on loader
InFlight(f) == run[f].pc \notin {"idle", "done"}
\* The runs started in the current pass.
StartedInPass(f) == runs[f] - sched.before[f]
InPass == sched.pc \notin {"none", "init"}
RECURSIVE Sum(_)
Sum(s) == IF s = <<>> THEN 0 ELSE Head(s) + Sum(Tail(s))

C12_OneRunPerCandidate ==
    (InPass /\ sched.pc = "exit") =>
        /\ \A f \in sched.regular : StartedInPass(f) = 1
        /\ \A f \in DOMAIN run : f \notin sched.regular => StartedInPass(f) = 0

\* C13: when a pass has ended, every candidate file none of whose own
\* requests failed has a record that says uploaded, whatever happened to the
\* runs of the other files.
OwnRequestsSucceeded(f) ==
    /\ run[f].acqStatus \in {NoResponse, 200}
    /\ run[f].uplStatus = NoResponse \/ Is2xx(run[f].uplStatus)
    /\ run[f].statBody \in {"none", "object"}
C13_FailureIsolation ==
    (InPass /\ sched.pc = "exit") =>
        \A f \in sched.regular :
            OwnRequestsSucceeded(f) =>
                /\ dir[f] = Data
                /\ dir[Target(f)].kind = "json" /\ dir[Target(f)].uploaded
                /\ dir[Status(f)].kind = "log"

\* C14: a step of the run of file f changes, in the input directory and in
\* failed-to-upload, only f, f's record and f's status log.
C14_OwnFilesOnly ==
    [][\A f \in DOMAIN run :
         run'[f] # run[f] =>
            \A p \in DOMAIN dir \ Own(f) :
                dir'[p] = dir[p] /\ junk'[p] = junk[p]]_vars

\* An input file that is in failed-to-upload: its upload was rejected.
Quarantined(f) == junk[f].kind = "data"

\* C19: once an input file is in failed-to-upload after its upload was
\* rejected, no step of any later pass sends an acquisition or an upload
\* request for it, and the file and its record in failed-to-upload stay as
\* they are.
C19_NoRetryAfterRejection ==
    [][\A f \in DOMAIN run :
         Quarantined(f) =>
            /\ sent'[f].acq = sent[f].acq
            /\ sent'[f].upl = sent[f].upl
            /\ junk'[f] = junk[f]
            /\ junk'[Target(f)] = junk[Target(f)]
            /\ junk[Target(f)].kind = "json"]_vars
C19_Witness ==
    \E f \in DOMAIN run :
        /\ sched.pass = 2 /\ sched.pc = "exit"
        /\ run[f].uplStatus = 500
        /\ Quarantined(f) /\ junk[Target(f)].kind = "json"
        /\ ~IsFile(dir, f) /\ ~IsFile(dir, Target(f))
        /\ runs[f] = 1 /\ sent[f].acq = 1 /\ sent[f].upl = 1

\* C20: no run is ever started for a name that is the record or the status
\* log of another file.
IsSidecarName(f) == \E g \in DOMAIN run : f \in {Target(g), Status(g)}
C20_SidecarsNeverInput ==
    \A f \in DOMAIN run : IsSidecarName(f) => runs[f] = 0
====
